---- MODULE Spec2Model ----
(***************************************************************************)
(* A model of the two scripts of azure_ml_cheatsheet:                      *)
(*   06_pipeline.py  builds a two-step pipeline, submits it, waits,        *)
(*                   harvests logs and files, registers the model,         *)
(*                   publishes the pipeline, triggers it over REST, waits  *)
(*                   again and schedules it;                               *)
(*   11_privacy.py   sends three differentially private queries (mean,     *)
(*                   histogram, covariance) to the noise engine.           *)
(* The remote platform (runs, step reuse, published pipelines, schedules)  *)
(* is modelled by its documented contract; every call the scripts make to  *)
(* it can succeed or raise.                                                *)
(***************************************************************************)
EXTENDS Integers, Sequences, FiniteSets, TLC

\* ------------------------------------------------------------------ bounds
\* How many times each script is run against the same workspace.
MaxScriptRuns == 2
\* The largest dataset size (len(data)) the privacy script is run on.
MaxRows == 6

\* ------------------------------------------------- constants of 06_pipeline
experiment_name == "ml-sdk-pipeline"
schedule_experiment_name == "mslearn-diabetes-pipeline"
cluster_name == "ml-sdk-cc"

\* The output slot passed from step 1 to step 2.
prepped_data == "prepped_data"

\* Step 1: reads the registered dataset, writes prepped_data.
prep_step ==
    [name |-> "Prepare Data", inputs |-> {}, outputs |-> {prepped_data},
     compute_target |-> cluster_name, allow_reuse |-> TRUE]

\* Step 2: reads prepped_data.
train_step ==
    [name |-> "Train and Register Model", inputs |-> {prepped_data}, outputs |-> {},
     compute_target |-> cluster_name, allow_reuse |-> TRUE]

\* A step list with the consumer put first.
StepList_Swapped == <<train_step, prep_step>>

\* The step list handed to Pipeline(...).
StepList == <<prep_step, train_step>>

\* experiment.submit(pipeline, regenerate_outputs=True)
SubmitRegenerateOutputs == TRUE

\* The REST payload names the experiment only: regeneration is not requested.
TriggerRegenerateOutputs == FALSE

\* --------------------------------------------------------- platform contract
NonTerminal == {"queued", "running"}
Terminal == {"succeeded", "failed", "canceled"}

VARIABLES
    \* 06_pipeline.py
    pc,                     \* the statement the script is at
    execNo,                 \* which run of the script this is
    log,                    \* the calls this run of the script has made, in order
    diabetes_ds,            \* ws.datasets.get(...): "unset", "None" or "ds"
    pipeline_steps,         \* the list given to Pipeline(...)
    experiment,             \* name of the Experiment object ("" before line 102)
    pipeline_run,           \* id of the submitted run (0 before submit)
    waited,                 \* ids of the runs a wait_for_completion returned for
    published_pipeline,     \* id of the published pipeline (0 before publish)
    response,               \* the HTTP response of the trigger
    run_id,                 \* response.json()['Id'] (0 before line 203)
    published_pipeline_run, \* the handle built at line 206
    weekly_schedule,        \* the schedule created at line 217
    pipeline_experiment,    \* name of the experiment read at line 231
    \* the remote platform
    runs,                   \* run id -> record
    cache,                  \* names of the steps a reusable output exists for
    published,              \* the published pipelines, by id
    schedules,              \* the schedules the platform holds
    models,                 \* number of registered model versions
    \* 11_privacy.py
    ppc,                    \* the statement the privacy script is at
    samples,                \* len(data) (0 before line 40)
    plog,                   \* the calls the privacy script has made, in order
    analysis,               \* the queries of the open sn.Analysis() block
    queries                 \* the queries the noise engine has received

scriptVars ==
    <<pc, execNo, log, diabetes_ds, pipeline_steps, experiment, pipeline_run, waited,
      published_pipeline, response, run_id, published_pipeline_run,
      weekly_schedule, pipeline_experiment>>
platformVars == <<runs, cache, published, schedules, models>>
privacyVars == <<ppc, samples, plog, analysis, queries>>
vars == <<scriptVars, platformVars, privacyVars>>

NoResponse == [status |-> "none", Id |-> 0]
NoHandle == [experiment |-> "", id |-> 0]
NoSchedule == [pipeline_id |-> 0, experiment_name |-> ""]

ScriptInit ==
    /\ pc = "ws"
    /\ execNo = 1
    /\ log = <<>>
    /\ diabetes_ds = "unset"
    /\ pipeline_steps = <<>>
    /\ experiment = ""
    /\ pipeline_run = 0
    /\ waited = {}
    /\ published_pipeline = 0
    /\ response = NoResponse
    /\ run_id = 0
    /\ published_pipeline_run = NoHandle
    /\ weekly_schedule = NoSchedule
    /\ pipeline_experiment = ""

PlatformInit ==
    /\ runs = <<>>
    /\ cache = {}
    /\ published = <<>>
    /\ schedules = {}
    /\ models = 0

\* ------------------------------------------------------------ 06_pipeline.py
\* A failed call caught and made again.
Raise_Retry == pc' = pc

\* A call that raises ends the script: nothing in the file catches anything.
Raise == pc' = "raised"

\* ws = Workspace.from_config()
LoadWorkspace ==
    /\ pc = "ws"
    /\ log' = Append(log, "ws")
    /\ \/ pc' = "dataset"
       \/ Raise
    /\ UNCHANGED <<execNo, diabetes_ds, pipeline_steps, experiment, pipeline_run, waited,
                   published_pipeline, response, run_id, published_pipeline_run,
                   weekly_schedule, pipeline_experiment>>
    /\ UNCHANGED <<platformVars, privacyVars>>

\* diabetes_ds = ws.datasets.get('diabetes dataset'): dict.get gives None for a
\* dataset that is not registered; fetching the dictionary can raise.
GetDataset ==
    /\ pc = "dataset"
    /\ log' = Append(log, "dataset")
    /\ \/ /\ pc' = "env"
          /\ diabetes_ds' \in {"ds", "None"}
       \/ /\ Raise
          /\ UNCHANGED diabetes_ds
    /\ UNCHANGED <<execNo, pipeline_steps, experiment, pipeline_run, waited,
                   published_pipeline, response, run_id, published_pipeline_run,
                   weekly_schedule, pipeline_experiment>>
    /\ UNCHANGED <<platformVars, privacyVars>>

\* registered_env = Environment.get(ws, 'experiment_env')
GetEnvironment ==
    /\ pc = "env"
    /\ log' = Append(log, "env")
    /\ \/ pc' = "build"
       \/ Raise
    /\ UNCHANGED <<execNo, diabetes_ds, pipeline_steps, experiment, pipeline_run, waited,
                   published_pipeline, response, run_id, published_pipeline_run,
                   weekly_schedule, pipeline_experiment>>
    /\ UNCHANGED <<platformVars, privacyVars>>

\* Lines 53-96: run configuration, output slot, the two steps, the step list and
\* Pipeline(workspace=ws, steps=pipeline_steps). diabetes_ds.as_named_input raises
\* AttributeError when the lookup gave None.
BuildPipeline ==
    /\ pc = "build"
    /\ log' = Append(log, "build")
    /\ \/ /\ diabetes_ds = "ds"
          /\ pipeline_steps' = StepList
          /\ pc' = "experiment"
       \/ /\ diabetes_ds = "ds"
          /\ pipeline_steps' = StepList
          /\ Raise
       \/ /\ diabetes_ds = "None"
          /\ UNCHANGED pipeline_steps
          /\ Raise
    /\ UNCHANGED <<execNo, diabetes_ds, experiment, pipeline_run, waited,
                   published_pipeline, response, run_id, published_pipeline_run,
                   weekly_schedule, pipeline_experiment>>
    /\ UNCHANGED <<platformVars, privacyVars>>

\* experiment = Experiment(workspace=ws, name=experiment_name)
CreateExperiment ==
    /\ pc = "experiment"
    /\ log' = Append(log, "experiment")
    /\ \/ /\ experiment' = experiment_name
          /\ pc' = "submit"
       \/ /\ UNCHANGED experiment
          /\ Raise
    /\ UNCHANGED <<execNo, diabetes_ds, pipeline_steps, pipeline_run, waited,
                   published_pipeline, response, run_id, published_pipeline_run,
                   weekly_schedule, pipeline_experiment>>
    /\ UNCHANGED <<platformVars, privacyVars>>

\* What the platform stores for a newly created run.
NewRun(exp, steps, regenerate) ==
    [status |-> "queued", experiment |-> exp, steps |-> steps,
     regenerate |-> regenerate, done |-> 0, executed |-> {}]

\* pipeline_run = experiment.submit(pipeline, regenerate_outputs=True): returns
\* the handle of a new run at once; the run executes remotely.
Submit ==
    /\ pc = "submit"
    /\ log' = Append(log, "submit")
    /\ \/ /\ runs' = Append(runs, NewRun(experiment, pipeline_steps, SubmitRegenerateOutputs))
          /\ pipeline_run' = Len(runs) + 1
          /\ pc' = "wait"
       \/ /\ UNCHANGED <<runs, pipeline_run>>
          /\ Raise
    /\ UNCHANGED <<execNo, diabetes_ds, pipeline_steps, experiment, waited,
                   published_pipeline, response, run_id, published_pipeline_run,
                   weekly_schedule, pipeline_experiment>>
    /\ UNCHANGED <<cache, published, schedules, models, privacyVars>>

\* A wait that gives up as soon as the run has started.
WaitReturns_Started(id) == runs[id].status # "queued"

\* A wait that only recognises success as the end of a run.
WaitReturns_SucceededOnly(id) == runs[id].status = "succeeded"

\* wait_for_completion(show_output=True) polls with no timeout_seconds given, so
\* it returns only once the run's status is terminal.
WaitReturns(id) == runs[id].status \in Terminal

\* raise_on_error is left at its default: a run that ended in failed makes the
\* wait raise; a succeeded or canceled run makes it return.
WaitRaises(id) == runs[id].status = "failed"

\* pipeline_run.wait_for_completion(show_output=True): blocks while the run is
\* not terminal.
Wait ==
    /\ pc = "wait"
    /\ WaitReturns(pipeline_run)
    /\ \/ /\ ~WaitRaises(pipeline_run)
          /\ waited' = waited \cup {pipeline_run}
          /\ pc' = "details"
       \/ /\ WaitRaises(pipeline_run)
          /\ UNCHANGED waited
          /\ Raise
    /\ log' = Append(log, "wait")
    /\ UNCHANGED <<execNo, diabetes_ds, pipeline_steps, experiment, pipeline_run,
                   published_pipeline, response, run_id, published_pipeline_run,
                   weekly_schedule, pipeline_experiment>>
    /\ UNCHANGED <<platformVars, privacyVars>>

\* Polling is a remote call: a request of the poll loop can fail while the run
\* is still queued or running, and the exception leaves wait_for_completion.
WaitPollError ==
    /\ pc = "wait"
    /\ ~WaitReturns(pipeline_run)
    /\ Raise
    /\ log' = Append(log, "wait")
    /\ UNCHANGED <<execNo, diabetes_ds, pipeline_steps, experiment, pipeline_run, waited,
                   published_pipeline, response, run_id, published_pipeline_run,
                   weekly_schedule, pipeline_experiment>>
    /\ UNCHANGED <<platformVars, privacyVars>>

\* run_details = pipeline_run.get_details_with_logs()
GetDetails ==
    /\ pc = "details"
    /\ log' = Append(log, "details")
    /\ \/ pc' = "logs"
       \/ Raise
    /\ UNCHANGED <<execNo, diabetes_ds, pipeline_steps, experiment, pipeline_run, waited,
                   published_pipeline, response, run_id, published_pipeline_run,
                   weekly_schedule, pipeline_experiment>>
    /\ UNCHANGED <<platformVars, privacyVars>>

\* pipeline_run.get_all_logs(destination=log_folder) and the os.walk that lists them
GetAllLogs ==
    /\ pc = "logs"
    /\ log' = Append(log, "logs")
    /\ \/ pc' = "download"
       \/ Raise
    /\ UNCHANGED <<execNo, diabetes_ds, pipeline_steps, experiment, pipeline_run, waited,
                   published_pipeline, response, run_id, published_pipeline_run,
                   weekly_schedule, pipeline_experiment>>
    /\ UNCHANGED <<platformVars, privacyVars>>

\* pipeline_run.download_files(prefix='outputs', ...) and the os.walk after it
DownloadFiles ==
    /\ pc = "download"
    /\ log' = Append(log, "download")
    /\ \/ pc' = "register"
       \/ Raise
    /\ UNCHANGED <<execNo, diabetes_ds, pipeline_steps, experiment, pipeline_run, waited,
                   published_pipeline, response, run_id, published_pipeline_run,
                   weekly_schedule, pipeline_experiment>>
    /\ UNCHANGED <<platformVars, privacyVars>>

\* model_path='outputs/diabetes_model.pkl' is written by the training step: the
\* run holds it once all its steps are complete.
ModelFilePresent(id) == runs[id].done = Len(runs[id].steps)

\* pipeline_run.register_model(...): the script does not look at the run's status
\* first. get_metrics()['AUC'] raises KeyError when the metric is absent, and the
\* platform refuses a model_path the run's outputs do not hold.
RegisterModel ==
    /\ pc = "register"
    /\ log' = Append(log, "register")
    /\ \/ /\ ModelFilePresent(pipeline_run)
          /\ models' = models + 1
          /\ pc' = "publish"
       \/ /\ UNCHANGED models
          /\ Raise
    /\ UNCHANGED <<execNo, diabetes_ds, pipeline_steps, experiment, pipeline_run, waited,
                   published_pipeline, response, run_id, published_pipeline_run,
                   weekly_schedule, pipeline_experiment>>
    /\ UNCHANGED <<runs, cache, published, schedules, privacyVars>>

\* published_pipeline = pipeline_run.publish_pipeline(name=..., version='1.0'):
\* the platform stores the run's pipeline definition under a new id.
PublishPipeline ==
    /\ pc = "publish"
    /\ log' = Append(log, "publish")
    /\ \/ /\ published' = Append(published, [steps |-> runs[pipeline_run].steps,
                                             from_run |-> pipeline_run])
          /\ published_pipeline' = Len(published) + 1
          /\ pc' = "auth"
       \/ /\ UNCHANGED <<published, published_pipeline>>
          /\ Raise
    /\ UNCHANGED <<execNo, diabetes_ds, pipeline_steps, experiment, pipeline_run, waited,
                   response, run_id, published_pipeline_run,
                   weekly_schedule, pipeline_experiment>>
    /\ UNCHANGED <<runs, cache, schedules, models, privacyVars>>

\* interactive_auth = InteractiveLoginAuthentication(); get_authentication_header()
AuthHeader ==
    /\ pc = "auth"
    /\ log' = Append(log, "auth")
    /\ \/ pc' = "post"
       \/ Raise
    /\ UNCHANGED <<execNo, diabetes_ds, pipeline_steps, experiment, pipeline_run, waited,
                   published_pipeline, response, run_id, published_pipeline_run,
                   weekly_schedule, pipeline_experiment>>
    /\ UNCHANGED <<platformVars, privacyVars>>

\* json={'ExperimentName': experiment_name}
TriggerPayload == [ExperimentName |-> experiment_name]

\* response = requests.post(rest_endpoint, headers=auth_header, json=...):
\* the platform creates a run of the published pipeline in the experiment the
\* payload names and answers {"Id": <run id>}; an HTTP error status makes
\* requests.post return a response with no Id (it does not raise); a connection
\* error makes it raise.
PostTrigger ==
    /\ pc = "post"
    /\ log' = Append(log, "post")
    /\ \/ /\ runs' = Append(runs, NewRun(TriggerPayload.ExperimentName,
                                        published[published_pipeline].steps,
                                        TriggerRegenerateOutputs))
          /\ response' = [status |-> "ok", Id |-> Len(runs) + 1]
          /\ pc' = "parse"
       \/ /\ UNCHANGED runs
          /\ response' = [status |-> "error", Id |-> 0]
          /\ pc' = "parse"
       \/ /\ UNCHANGED <<runs, response>>
          /\ Raise
    /\ UNCHANGED <<execNo, diabetes_ds, pipeline_steps, experiment, pipeline_run, waited,
                   published_pipeline, run_id, published_pipeline_run,
                   weekly_schedule, pipeline_experiment>>
    /\ UNCHANGED <<cache, published, schedules, models, privacyVars>>

\* response.json().get('Id'): a body without "Id" gives None and the script goes on.
ParseRunId_Get ==
    /\ pc = "parse"
    /\ run_id' = response.Id
    /\ pc' = "lookup"
    /\ UNCHANGED <<execNo, log, diabetes_ds, pipeline_steps, experiment, pipeline_run,
                   waited, published_pipeline, response, published_pipeline_run,
                   weekly_schedule, pipeline_experiment>>
    /\ UNCHANGED <<platformVars, privacyVars>>

\* run_id = response.json()['Id']: a body without "Id" raises KeyError.
ParseRunId ==
    /\ pc = "parse"
    /\ \/ /\ response.status = "ok"
          /\ run_id' = response.Id
          /\ pc' = "lookup"
       \/ /\ response.status # "ok"
          /\ UNCHANGED run_id
          /\ Raise
    /\ UNCHANGED <<execNo, log, diabetes_ds, pipeline_steps, experiment, pipeline_run,
                   waited, published_pipeline, response, published_pipeline_run,
                   weekly_schedule, pipeline_experiment>>
    /\ UNCHANGED <<platformVars, privacyVars>>

\* A handle built from the submitted run instead of the triggered one.
TriggeredRunHandle_Original == [experiment |-> experiment_name, id |-> pipeline_run]

\* The handle PipelineRun(ws.experiments[experiment_name], run_id) denotes.
TriggeredRunHandle == [experiment |-> experiment_name, id |-> run_id]

\* published_pipeline_run = PipelineRun(ws.experiments[experiment_name], run_id):
\* the platform finds the run only in the experiment that holds it.
LookupRun ==
    /\ pc = "lookup"
    /\ log' = Append(log, "lookup")
    /\ \/ /\ TriggeredRunHandle.id \in DOMAIN runs
          /\ runs[TriggeredRunHandle.id].experiment = TriggeredRunHandle.experiment
          /\ published_pipeline_run' = TriggeredRunHandle
          /\ pc' = "wait2"
       \/ /\ UNCHANGED published_pipeline_run
          /\ Raise
    /\ UNCHANGED <<execNo, diabetes_ds, pipeline_steps, experiment, pipeline_run, waited,
                   published_pipeline, response, run_id,
                   weekly_schedule, pipeline_experiment>>
    /\ UNCHANGED <<platformVars, privacyVars>>

\* published_pipeline_run.wait_for_completion(show_output=True)
WaitPublished ==
    /\ pc = "wait2"
    /\ WaitReturns(published_pipeline_run.id)
    /\ \/ /\ ~WaitRaises(published_pipeline_run.id)
          /\ waited' = waited \cup {published_pipeline_run.id}
          /\ pc' = "schedule"
       \/ /\ WaitRaises(published_pipeline_run.id)
          /\ UNCHANGED waited
          /\ Raise
    /\ log' = Append(log, "wait2")
    /\ UNCHANGED <<execNo, diabetes_ds, pipeline_steps, experiment, pipeline_run,
                   published_pipeline, response, run_id, published_pipeline_run,
                   weekly_schedule, pipeline_experiment>>
    /\ UNCHANGED <<platformVars, privacyVars>>

\* A request of the second poll loop fails while the triggered run is not terminal.
WaitPublishedPollError ==
    /\ pc = "wait2"
    /\ ~WaitReturns(published_pipeline_run.id)
    /\ Raise
    /\ log' = Append(log, "wait2")
    /\ UNCHANGED <<execNo, diabetes_ds, pipeline_steps, experiment, pipeline_run, waited,
                   published_pipeline, response, run_id, published_pipeline_run,
                   weekly_schedule, pipeline_experiment>>
    /\ UNCHANGED <<platformVars, privacyVars>>

\* The arguments of Schedule.create(ws, name='weekly-diabetes-training', ...,
\* pipeline_id=published_pipeline.id, experiment_name='mslearn-diabetes-pipeline',
\* recurrence=recurrence)
ScheduleRequest ==
    [pipeline_id |-> published_pipeline, experiment_name |-> schedule_experiment_name]

\* recurrence = ScheduleRecurrence(...); weekly_schedule = Schedule.create(...)
CreateSchedule ==
    /\ pc = "schedule"
    /\ log' = Append(log, "schedule")
    /\ \/ /\ schedules' = schedules \cup {ScheduleRequest}
          /\ weekly_schedule' = ScheduleRequest
          /\ pc' = "list"
       \/ /\ UNCHANGED <<schedules, weekly_schedule>>
          /\ Raise
    /\ UNCHANGED <<execNo, diabetes_ds, pipeline_steps, experiment, pipeline_run, waited,
                   published_pipeline, response, run_id, published_pipeline_run,
                   pipeline_experiment>>
    /\ UNCHANGED <<runs, cache, published, models, privacyVars>>

\* schedules = Schedule.list(ws)
ListSchedules ==
    /\ pc = "list"
    /\ log' = Append(log, "list")
    /\ \/ pc' = "latest"
       \/ Raise
    /\ UNCHANGED <<execNo, diabetes_ds, pipeline_steps, experiment, pipeline_run, waited,
                   published_pipeline, response, run_id, published_pipeline_run,
                   weekly_schedule, pipeline_experiment>>
    /\ UNCHANGED <<platformVars, privacyVars>>

\* pipeline_experiment = ws.experiments.get(experiment_name);
\* latest_run = list(pipeline_experiment.get_runs())[0]; latest_run.get_details()
LatestRun ==
    /\ pc = "latest"
    /\ log' = Append(log, "latest")
    /\ \/ /\ pipeline_experiment' = experiment_name
          /\ pc' = "done"
       \/ /\ UNCHANGED pipeline_experiment
          /\ Raise
    /\ UNCHANGED <<execNo, diabetes_ds, pipeline_steps, experiment, pipeline_run, waited,
                   published_pipeline, response, run_id, published_pipeline_run,
                   weekly_schedule>>
    /\ UNCHANGED <<platformVars, privacyVars>>

\* The script has ended, normally or by an exception.
Ended == pc \in {"done", "raised"}

\* The user runs the script again: a fresh process against the same workspace.
RunScriptAgain ==
    /\ Ended
    /\ execNo < MaxScriptRuns
    /\ execNo' = execNo + 1
    /\ pc' = "ws"
    /\ log' = <<>>
    /\ diabetes_ds' = "unset"
    /\ pipeline_steps' = <<>>
    /\ experiment' = ""
    /\ pipeline_run' = 0
    /\ waited' = {}
    /\ published_pipeline' = 0
    /\ response' = NoResponse
    /\ run_id' = 0
    /\ published_pipeline_run' = NoHandle
    /\ weekly_schedule' = NoSchedule
    /\ pipeline_experiment' = ""
    /\ UNCHANGED <<platformVars, privacyVars>>

\* The statements of the script, each run to its end (or to its exception).
ScriptStatements ==
    \/ LoadWorkspace \/ GetDataset \/ GetEnvironment \/ BuildPipeline
    \/ CreateExperiment \/ Submit \/ Wait \/ GetDetails \/ GetAllLogs
    \/ DownloadFiles \/ RegisterModel \/ PublishPipeline \/ AuthHeader
    \/ PostTrigger \/ ParseRunId \/ LookupRun \/ WaitPublished
    \/ CreateSchedule \/ ListSchedules \/ LatestRun

\* A network error inside one of the two poll loops.
PollErrors == WaitPollError \/ WaitPublishedPollError

ScriptNext == ScriptStatements \/ PollErrors

\* ------------------------------------------------------ the remote platform
\* A queued run starts.
PlatformStart(r) ==
    /\ runs[r].status = "queued"
    /\ runs' = [runs EXCEPT ![r].status = "running"]
    /\ UNCHANGED <<cache, published, schedules, models, scriptVars, privacyVars>>

\* Whether the platform substitutes an earlier output for step s of run r: the
\* step allows reuse, an output of an identical earlier execution exists, and
\* the submission did not ask to regenerate outputs.
Reused(r, s) == s.allow_reuse /\ s.name \in cache /\ ~runs[r].regenerate

\* The next step of a running run completes, by execution or by reuse.
PlatformStep(r) ==
    /\ runs[r].status = "running"
    /\ runs[r].done < Len(runs[r].steps)
    /\ LET s == runs[r].steps[runs[r].done + 1] IN
        /\ runs' = [runs EXCEPT ![r].done = @ + 1,
                                ![r].executed = IF Reused(r, s) THEN @ ELSE @ \cup {s.name}]
        /\ cache' = cache \cup {s.name}
    /\ UNCHANGED <<published, schedules, models, scriptVars, privacyVars>>

\* A step of a running run fails on the remote compute.
PlatformStepFails(r) ==
    /\ runs[r].status = "running"
    /\ runs[r].done < Len(runs[r].steps)
    /\ runs' = [runs EXCEPT ![r].status = "failed"]
    /\ UNCHANGED <<cache, published, schedules, models, scriptVars, privacyVars>>

\* All steps are complete: the run succeeds.
PlatformFinish(r) ==
    /\ runs[r].status = "running"
    /\ runs[r].done = Len(runs[r].steps)
    /\ runs' = [runs EXCEPT ![r].status = "succeeded"]
    /\ UNCHANGED <<cache, published, schedules, models, scriptVars, privacyVars>>

\* A run is canceled through the platform (portal, another client).
PlatformCancel(r) ==
    /\ runs[r].status \in NonTerminal
    /\ runs' = [runs EXCEPT ![r].status = "canceled"]
    /\ UNCHANGED <<cache, published, schedules, models, scriptVars, privacyVars>>

PlatformProgress ==
    \E r \in DOMAIN runs :
        PlatformStart(r) \/ PlatformStep(r) \/ PlatformStepFails(r) \/ PlatformFinish(r)

PlatformNext == PlatformProgress \/ \E r \in DOMAIN runs : PlatformCancel(r)

\* ------------------------------------------------------------- 11_privacy.py
\* Epsilon is kept in tenths: 0.5 is 5 and 1.0 is 10.
MeanEpsilonTenths == 5
HistogramEpsilonTenths == 5
CovarianceEpsilonTenths == 10
AgeLower == 0
AgeUpper == 120
PressureLower == 0
PressureUpper == 150
CovarianceRows == 10000

\* A mean query whose epsilon literal is zero.
MeanQuery_ZeroEpsilon ==
    [kind |-> "mean", epsilon |-> 0,
     bounds |-> {<<AgeLower, AgeUpper>>}, rows |-> samples]

\* sn.dp_mean(data=age_dt, privacy_usage={'epsilon': .50}, data_lower=age_range[0],
\* data_upper=age_range[1], data_rows=samples)
MeanQuery ==
    [kind |-> "mean", epsilon |-> MeanEpsilonTenths,
     bounds |-> {<<AgeLower, AgeUpper>>}, rows |-> samples]

\* sn.dp_histogram(sn.to_int(data['Age'], lower=0, upper=120), edges=ages,
\* upper=10000, null_value=-1, privacy_usage={'epsilon': 0.5})
HistogramQuery ==
    [kind |-> "histogram", epsilon |-> HistogramEpsilonTenths,
     bounds |-> {<<AgeLower, AgeUpper>>}, rows |-> 0]

\* sn.dp_covariance(left=..., right=..., privacy_usage={'epsilon': 1.0},
\* left_lower=0., left_upper=120., left_rows=10000, right_lower=0.,
\* right_upper=150., right_rows=10000)
CovarianceQuery ==
    [kind |-> "covariance", epsilon |-> CovarianceEpsilonTenths,
     bounds |-> {<<AgeLower, AgeUpper>>, <<PressureLower, PressureUpper>>},
     rows |-> CovarianceRows]

PrivacyInit ==
    /\ ppc = "ws"
    /\ samples = 0
    /\ plog = <<>>
    /\ analysis = {}
    /\ queries = <<>>

PRaise == ppc' = "raised"

\* A statement of the privacy script that changes nothing but the position.
PStatement(at, op, next) ==
    /\ ppc = at
    /\ plog' = Append(plog, op)
    /\ \/ ppc' = next
       \/ PRaise
    /\ UNCHANGED <<samples, analysis, queries>>
    /\ UNCHANGED <<scriptVars, platformVars>>

\* ws = Workspace.from_config()
PLoadWorkspace == PStatement("ws", "ws", "dataset")

\* data = ws.datasets.get('diabetes dataset')
PGetDataset == PStatement("dataset", "dataset", "read")

\* cols = list(data.columns); age_range = [0.0, 120.0]; samples = len(data)
PReadData ==
    /\ ppc = "read"
    /\ plog' = Append(plog, "read")
    /\ \/ /\ samples' \in 1..MaxRows
          /\ ppc' = "mean"
       \/ /\ UNCHANGED samples
          /\ PRaise
    /\ UNCHANGED <<analysis, queries>>
    /\ UNCHANGED <<scriptVars, platformVars>>

\* A with sn.Analysis() block: the query is composed with the literals of the
\* call and handed to no check of the script's own.
PCompose(at, q, next) ==
    /\ ppc = at
    /\ plog' = Append(plog, q.kind)
    /\ \/ /\ analysis' = {q}
          /\ ppc' = next
       \/ /\ UNCHANGED analysis
          /\ PRaise
    /\ UNCHANGED <<samples, queries>>
    /\ UNCHANGED <<scriptVars, platformVars>>

\* analysis.release(): the noise engine receives the queries of the block.
PRelease(at, next) ==
    /\ ppc = at
    /\ plog' = Append(plog, "release")
    /\ \E q \in analysis : queries' = Append(queries, q)
    /\ analysis' = {}
    /\ \/ ppc' = next
       \/ PRaise
    /\ UNCHANGED samples
    /\ UNCHANGED <<scriptVars, platformVars>>

\* Lines 42-53
PMean == PCompose("mean", MeanQuery, "release1")
\* Line 55
PReleaseMean == PRelease("release1", "print")
\* Lines 58-65: the private and the actual mean are printed
PPrintMean == PStatement("print", "print", "histogram")
\* Lines 68-75
PHistogram == PCompose("histogram", HistogramQuery, "release2")
\* Line 77
PReleaseHistogram == PRelease("release2", "plot")
\* Lines 80-98: the two plots
PPlot == PStatement("plot", "plot", "covariance")
\* Lines 101-111
PCovariance == PCompose("covariance", CovarianceQuery, "release3")
\* Line 112
PReleaseCovariance == PRelease("release3", "report")
\* Lines 113-114
PReport == PStatement("report", "report", "done")

PrivacyNext ==
    \/ PLoadWorkspace \/ PGetDataset \/ PReadData \/ PMean \/ PReleaseMean
    \/ PPrintMean \/ PHistogram \/ PReleaseHistogram \/ PPlot \/ PCovariance
    \/ PReleaseCovariance \/ PReport

\* ------------------------------------------------------------ specifications
Init == ScriptInit /\ PlatformInit /\ PrivacyInit

\* One execution of the pipeline script, and the platform it talks to.
ExecutionNext == ScriptNext \/ PlatformNext

\* The pipeline script run again and again against the same workspace.
PipelineNext == ExecutionNext \/ RunScriptAgain

Next == PipelineNext \/ PrivacyNext

\* Both scripts, in any interleaving.
Spec == Init /\ [][Next]_vars

\* One execution of 06_pipeline.py against a fresh workspace.
ExecutionSpec == Init /\ [][ExecutionNext]_vars

\* 06_pipeline.py executed up to MaxScriptRuns times against one workspace.
PipelineSpec == Init /\ [][PipelineNext]_vars

\* 11_privacy.py alone.
PrivacySpec == Init /\ [][PrivacyNext]_vars

\* The interpreter keeps executing the script's statements, and the platform
\* keeps working on the runs it holds. Nothing obliges a poll request to fail or
\* anybody to cancel a run.
FairExecutionSpec ==
    ExecutionSpec /\ WF_vars(ScriptStatements) /\ WF_vars(PlatformProgress)

\* -------------------------------------------------------------------- claims
Range(seq) == {seq[i] : i \in DOMAIN seq}

\* The calls of 06_pipeline.py in the order of its lines.
ScriptOrder ==
    <<"ws", "dataset", "env", "build", "experiment", "submit", "wait", "details",
      "logs", "download", "register", "publish", "auth", "post", "lookup", "wait2",
      "schedule", "list", "latest">>

\* C1: the calls an execution of the pipeline script has made are always an
\* initial part of one fixed sequence (workspace, dataset, build, submit, wait,
\* harvest, register, publish, ..., schedule): no call is made out of order, none
\* is skipped and none is made twice.
C1_FixedOrder ==
    /\ Len(log) <= Len(ScriptOrder)
    /\ \A i \in DOMAIN log : log[i] = ScriptOrder[i]

\* The script ran to its end and made every call of the sequence.
C1_Witness == pc = "done" /\ Len(log) = Len(ScriptOrder)

\* Every slot a step consumes is produced by a step before it in the list.
DependencyOrdered(steps) ==
    \A i \in DOMAIN steps : \A slot \in steps[i].inputs :
        \E j \in DOMAIN steps : j < i /\ slot \in steps[j].outputs

\* The position of the step called name in the list (0 when absent).
Position(steps, name) ==
    IF \E i \in DOMAIN steps : steps[i].name = name
    THEN CHOOSE i \in DOMAIN steps : steps[i].name = name
    ELSE 0

\* C2: in every pipeline definition built by the script or held by a run, each
\* step that consumes a slot comes after the step that produces it; 'Prepare
\* Data' comes before 'Train and Register Model', which consumes prepped_data.
C2_DependencyOrder ==
    /\ DependencyOrdered(pipeline_steps)
    /\ \A r \in DOMAIN runs :
        /\ DependencyOrdered(runs[r].steps)
        /\ 0 < Position(runs[r].steps, "Prepare Data")
        /\ Position(runs[r].steps, "Prepare Data")
             < Position(runs[r].steps, "Train and Register Model")
        /\ prepped_data \in runs[r].steps[Position(runs[r].steps, "Prepare Data")].outputs
        /\ prepped_data
             \in runs[r].steps[Position(runs[r].steps, "Train and Register Model")].inputs

\* The pipeline the script built has been handed to submission.
C2_Witness ==
    /\ pipeline_run # 0
    /\ Len(pipeline_steps) = 2
    /\ runs[pipeline_run].steps = pipeline_steps

\* C3: every run a wait_for_completion has returned for is in a terminal
\* status, at the return and at every later point of the script.
C3_WaitReturnsTerminal == \A id \in waited : runs[id].status \in Terminal

\* Both waits have returned, one of them for a canceled run.
C3_Witness ==
    /\ Cardinality(waited) = 2
    /\ \E id \in waited : runs[id].status = "canceled"

\* C4: a step that allows reuse and whose output an earlier execution has
\* produced is never executed again by a later run of the same definition.
C4_ReuseSkipsStep ==
    [][\A r \in DOMAIN runs : \A i \in DOMAIN runs[r].steps :
          (/\ runs[r].steps[i].allow_reuse
           /\ runs[r].steps[i].name \in cache)
          => ~(/\ runs[r].steps[i].name \notin runs[r].executed
               /\ runs'[r].steps[i].name \in runs'[r].executed)]_vars

\* C5: the script registers the model, publishes and schedules only when the
\* submitted run has succeeded.
C5_PublishOnlySucceeded ==
    \A op \in {"register", "publish", "schedule"} :
        op \in Range(log) => runs[pipeline_run].status = "succeeded"

\* C6: the POST creates a run that did not exist and returns its id while the
\* run is not terminal; the handle the second wait polls has that id, not the
\* submitted run's, and the experiment the payload named; the schedule is
\* created only after the wait on that id has returned.
C6_TriggeredRunPolled ==
    [][/\ (pc = "post" /\ response'.status = "ok") =>
            /\ response'.Id \notin DOMAIN runs
            /\ response'.Id \in DOMAIN runs'
            /\ runs'[response'.Id].status \in NonTerminal
            /\ runs'[response'.Id].experiment = TriggerPayload.ExperimentName
       /\ published_pipeline_run' # NoHandle =>
            /\ response'.status = "ok"
            /\ published_pipeline_run'.id = response'.Id
            /\ published_pipeline_run'.id # pipeline_run'
            /\ published_pipeline_run'.experiment
                 = runs'[response'.Id].experiment
       /\ "wait2" \in Range(log') /\ pc' # "raised" => response'.Id \in waited'
       /\ "schedule" \in Range(log') => response'.Id \in waited']_vars

\* The schedule exists, after the wait on the triggered run.
C6_Witness ==
    /\ weekly_schedule # NoSchedule
    /\ run_id # 0
    /\ published_pipeline_run.id = run_id

\* C7: once a call has raised, the script does nothing more; no call is made
\* twice; the script never gets past a wait on a failed run, and never past
\* the parsing of a trigger response that reported an HTTP error.
C7_ErrorsEndScript ==
    [][/\ pc = "raised" => (UNCHANGED scriptVars \/ execNo' # execNo)
       /\ \A i, j \in DOMAIN log' : log'[i] = log'[j] => i = j
       /\ \A id \in waited' : runs'[id].status # "failed"
       /\ response'.status = "error" => pc' \in {"parse", "raised"}]_vars

\* The trigger answered with an HTTP error and the script has ended on it.
C7_Witness ==
    /\ pc = "raised"
    /\ response.status = "error"
    /\ log[Len(log)] = "post"

\* C8 as stated: every release to the noise engine comes after a local
\* validation of the privacy parameters.
C8_ValidatedBeforeRelease ==
    \A i \in DOMAIN plog :
        plog[i] = "release" => \E j \in DOMAIN plog : j < i /\ plog[j] = "validate"

\* C8 as amended: every query the noise engine receives has a positive epsilon
\* and no lower bound above its upper bound.
C8_EngineParametersValid ==
    \A i \in DOMAIN queries :
        /\ queries[i].epsilon > 0
        /\ \A b \in queries[i].bounds : b[1] <= b[2]

\* The engine has received the mean, the histogram and the covariance query.
C8_Witness == {queries[i].kind : i \in DOMAIN queries} = {"mean", "histogram", "covariance"}

\* The experiment names the script has used so far.
ExperimentNamesUsed ==
    ({experiment, published_pipeline_run.experiment, weekly_schedule.experiment_name,
      pipeline_experiment}
        \cup {runs[r].experiment : r \in DOMAIN runs}) \ {""}

\* C9: the script uses one experiment name for the submission, the trigger
\* payload, the lookup of the triggered run, the schedule and the final read.
C9_SingleExperimentName == Cardinality(ExperimentNamesUsed) <= 1

\* C10: with the platform making progress on its runs, each wait ends and the
\* script reaches the creation of the schedule or stops on an error; and the
\* script leaves a wait on a run that is not terminal only by an exception.
C10_WaitsTerminate ==
    /\ (pc = "wait") ~> (pc \in {"details", "raised"})
    /\ (pc = "wait2") ~> (pc \in {"schedule", "raised"})
    /\ <>("schedule" \in Range(log) \/ pc = "raised")
    /\ [][/\ (pc = "wait" /\ runs[pipeline_run].status \in NonTerminal /\ pc' # "wait")
             => pc' = "raised"
          /\ (pc = "wait2" /\ runs[published_pipeline_run.id].status \in NonTerminal
                /\ pc' # "wait2")
             => pc' = "raised"]_vars

\* Both waits have returned and the schedule has been requested.
C10_Witness == "schedule" \in Range(log) /\ Cardinality(waited) = 2

====
